---------------------------- MODULE Spec2Model ----------------------------
(***************************************************************************)
(* Request serialisation in the speech services of second-brain.           *)
(*                                                                         *)
(*   adv-tts-service  apps/adv-tts-service/src/routes.py, tts_engine.py    *)
(*   tts-service      apps/tts-service/src/routes.py, tts_engine.py        *)
(*   stt-service      apps/stt-service/src/main.py, stt_engine.py          *)
(*                                                                         *)
(* One service process runs one asyncio event loop.  A handler task runs   *)
(* from one suspension point (an await that may suspend) to the next while *)
(* every other task stands still; the engine's synthesize is a plain       *)
(* (blocking) call made on the event loop thread.  pc[t] is the position   *)
(* of task t; the positions in Suspended are the awaits.                   *)
(***************************************************************************)
EXTENDS Integers, Sequences, FiniteSets, TLC

\* ----------------------------------------------------------------- bounds
NumHttp == 1     \* HTTP requests (each to POST /synthesize or POST /synthesize/binary)
NumWs == 2       \* WebSocket connections to /stream
MaxUnits == 2    \* sentence units in one streamed text
MaxReqs == 2     \* messages a client sends on one connection

HttpIds == 1..NumHttp
WsIds == (NumHttp + 1)..(NumHttp + NumWs)
Tasks == HttpIds \cup WsIds

IsHttp(t) == t \in HttpIds

Services == {"adv", "tts"}
AdvEngines == {"piper", "pocket", "qwen3", "kokoro"}

VARIABLES
    service,    \* which service this process is: "adv" or "tts"
    engine,     \* the engine kind selected at startup (settings.model_type)
    pc,         \* position of each handler task
    sem,        \* synthesis_semaphore: _value, _waiters (tasks in deque order), done futures
    order,      \* history: tasks that requested the gate and have not left it, in request order
    inflight,   \* tasks whose backend generation call is executing (inline or in a worker thread)
    timedOut,   \* history: tasks whose Qwen3 future.result(timeout) has expired
    connected,  \* WebSocket transport of a connection is up
    inbox,      \* message the client has sent and the server has not yet received
    total,      \* sentence units of the text of the request being streamed
    produced,   \* units the generator has yielded for the current request
    seq,        \* sequence_id local of websocket_stream
    log,        \* messages sent to the client for the current request, in order
    nreq,       \* messages received on the connection so far
    status,     \* HTTP status of the response (0: none yet)
    body,       \* the body of the HTTP request as it was posted
    endCause,   \* why a handler left by an exception ("none" otherwise)
    phase,      \* lifespan of the process: "boot", "serving", "stopped"
    registry,   \* the module global _engine: "none" or "engine"
    initialized,\* the engine's _initialized flag (model_loaded in stt-service)
    model,      \* the engine's model attribute is not None
    loads,      \* times the backend's model loader has been invoked
    initReturned, \* history: a call of initialize() / load_model() has returned without raising
    failure,    \* why the startup initialization raised ("none": it did not)
    reply,      \* outcome of the last probe or direct engine call
    text,       \* a request text, as its runs of whitespace and other characters
    verdict,    \* what validating text gave
    call,       \* an engine function called on its own: the function and its arguments
    result,     \* how far that call has got and what it gave
    tpc,        \* position of each transcribe handler of stt-service
    upload,     \* the multipart request as it was posted: filename, task, size
    tstatus,    \* HTTP status of the transcribe response (0: none yet)
    tcause,     \* what a transcribe handler raised ("none": nothing)
    heard,      \* what the model's transcribe was given to read by the request
    fd,         \* the file the handler's open file object f refers to
    files,      \* names in /tmp and the files they name
    data,       \* contents of those files: whose upload was written last
    voice,      \* the voice argument of an engine call a handler has still to make
    voice_states, \* PocketTTSEngine.voice_states: the voices that have a cached state
    voice_loads \* history: times the backend's voice loader was invoked, per voice

reqVars == <<pc, sem, order, inflight, timedOut, connected, inbox,
             total, produced, seq, log, nreq, status, body, endCause>>

lifeVars == <<phase, registry, initialized, model, loads, initReturned, failure, reply>>

textVars == <<text, verdict>>

callVars == <<call, result>>

sttVars == <<tpc, upload, tstatus, tcause, heard, fd, files, data>>

voiceVars == <<voice, voice_states, voice_loads>>

vars == <<service, engine, reqVars, lifeVars, textVars, callVars, sttVars, voiceVars>>

\* ----------------------------------------------------------------- transcribe requests
\* the transcribe requests, each of its own client
SttIds == {"r1", "r2", "r3"}

Filenames == {"a.wav", "b.wav"}
TaskValues == {"transcribe", "translate", "summarize"}

\* a multipart request; suspends: the upload is one whose `await audio.read()`
\* gives the event loop away (an upload spooled to disk is read in a worker thread)
Uploads == [filename : Filenames, task : TaskValues, suspends : BOOLEAN]
NoUpload == [filename |-> "", task |-> "", suspends |-> FALSE]

\* no file: a name that is not in /tmp, a closed file object
NoFile == "none"

\* ----------------------------------------------------------------- request texts
\* A text is the sequence of its maximal runs of whitespace and of other
\* characters: a run is [ws, n], n >= 1 characters, and neighbours differ in ws.
MaxRuns == 3     \* runs in a text

MaxTextLength == 10000   \* Field(max_length=10000)
MinTextLength == 1       \* Field(min_length=1)
MinSpeed == 5            \* Field(ge=0.5), in tenths
MaxSpeed == 20           \* Field(le=2.0), in tenths

Word(n) == [ws |-> FALSE, n |-> n]
Space(n) == [ws |-> TRUE, n |-> n]

RunLens == {1, 2, MaxTextLength - 1, MaxTextLength, MaxTextLength + 1}
Runs == {Word(n) : n \in RunLens} \cup {Space(n) : n \in RunLens}

IsText(t) == \A i \in 1..(Len(t) - 1) : t[i].ws # t[i + 1].ws

Texts == {t \in UNION {[1..k -> Runs] : k \in 0..MaxRuns} : IsText(t)}

\* len(v)
RECURSIVE TextLen(_)
TextLen(t) == IF t = <<>> THEN 0 ELSE Head(t).n + TextLen(Tail(t))

\* v.split(): the words, in order
Split(t) == SelectSeq(t, LAMBDA r : ~r.ws)

\* " ".join(words)
RECURSIVE Join(_)
Join(words) ==
    IF Len(words) <= 1 THEN words
    ELSE <<Head(words), Space(1)>> \o Join(Tail(words))

\* v.strip()
Strip(t) ==
    LET a == IF t # <<>> /\ Head(t).ws THEN Tail(t) ELSE t
    IN  IF a # <<>> /\ a[Len(a)].ws THEN SubSeq(a, 1, Len(a) - 1) ELSE a

\* the constraints of Field(..., min_length=1, max_length=10000), on the value as received
FieldLengthOk(t) == MinTextLength <= TextLen(t) /\ TextLen(t) <= MaxTextLength

\* SynthesizeRequest.text: the Field constraints, then validate_text on what passed
ValidateText(t) ==
    IF ~FieldLengthOk(t) THEN [ok |-> FALSE, value |-> <<>>]
    ELSE LET v == Join(Split(t))
         IN  IF Strip(v) = <<>> THEN [ok |-> FALSE, value |-> <<>>]
             ELSE [ok |-> TRUE, value |-> v]

\* SynthesizeRequest.speed: Field(ge=0.5, le=2.0)
SpeedOk(sp) == MinSpeed <= sp /\ sp <= MaxSpeed

\* ----------------------------------------------------------------- sentences of a streamed text
\* A streamed text by the classes of its characters: "w" a character that is
\* neither whitespace nor one of . ! ?, "s" whitespace, "p" one of . ! ?
MaxChars == 8    \* characters in a streamed text

Chars == {"w", "s", "p"}
StreamTexts == UNION {[1..k -> Chars] : k \in 0..MaxChars}

\* str.strip()
RECURSIVE LStrip(_)
LStrip(t) == IF t # <<>> /\ Head(t) = "s" THEN LStrip(Tail(t)) ELSE t

RECURSIVE RStrip(_)
RStrip(t) ==
    IF t # <<>> /\ t[Len(t)] = "s" THEN RStrip(SubSeq(t, 1, Len(t) - 1)) ELSE t

StripChars(t) == RStrip(LStrip(t))

\* re.split(r"[.!?]+", text): the pieces between the runs of . ! ?, the empty
\* pieces at either end included
RECURSIVE ReSplit(_, _)
ReSplit(t, piece) ==
    IF t = <<>> THEN <<piece>>
    ELSE IF Head(t) = "p" THEN
        IF Len(t) > 1 /\ t[2] = "p" THEN ReSplit(Tail(t), piece)
        ELSE <<piece>> \o ReSplit(Tail(t), <<>>)
    ELSE ReSplit(Tail(t), Append(piece, Head(t)))

RECURSIVE StripAll(_)
StripAll(pieces) ==
    IF pieces = <<>> THEN <<>>
    ELSE <<StripChars(Head(pieces))>> \o StripAll(Tail(pieces))

\* _split_into_sentences: [s.strip() for s in sentences if s.strip()]
SplitIntoSentences(t) ==
    SelectSeq(StripAll(ReSplit(t, <<>>)), LAMBDA piece : piece # <<>>)

\* ----------------------------------------------------------------- HTTP request bodies
NoBody == [text |-> <<>>, speed |-> 0]
Body(t, sp) == [text |-> t, speed |-> sp]
HttpBodies ==
    {Body(<<Word(1)>>, 10), Body(<<>>, 10), Body(<<Word(MaxTextLength + 1)>>, 10),
     Body(<<Word(1)>>, MinSpeed - 1), Body(<<Word(1)>>, MaxSpeed + 1)}

\* the request model accepts everything
ValidBodyAny(b) == TRUE

\* FastAPI builds the SynthesizeRequest before it calls the handler
ValidBody(b) == ValidateText(b.text).ok /\ SpeedOk(b.speed)

\* ----------------------------------------------------------------- messages
\* a synthesize message: the sentence units of its text, and the constraint of
\* StreamMessage it violates ("none": it satisfies them all)
NoMsg == [type |-> "none", units |-> 0, viol |-> "none"]
SynthMsg(n) == [type |-> "synthesize", units |-> n, viol |-> "none"]
BadSynthMsg(n, v) == [type |-> "synthesize", units |-> n, viol |-> v]
OtherMsg == [type |-> "ping", units |-> 0, viol |-> "none"]
ClientMsgs ==
    {SynthMsg(n) : n \in 0..MaxUnits}
        \cup {BadSynthMsg(0, "text_empty"), BadSynthMsg(MaxUnits, "text_long"),
              BadSynthMsg(1, "speed")}
        \cup {OtherMsg}

ChunkMsg(s) == [type |-> "audio_chunk", sequence_id |-> s, is_last |-> FALSE]
CompleteMsg(s) == [type |-> "complete", sequence_id |-> s, is_last |-> TRUE]
ErrorMsg == [type |-> "error", sequence_id |-> -1, is_last |-> FALSE]

\* ----------------------------------------------------------------- positions
\* awaits: nothing runs on the loop thread for a task standing at one of these
Suspended == {"idle", "recv", "wait", "s_chunk", "s_complete", "done", "closed"}
\* inside engine.synthesize (the loop thread is blocked in the call)
InEngine == {"infer", "tmo"}
\* body of `async with synthesis_semaphore` (adv) / the same statements in tts
HttpCritical == {"call", "infer", "tmo"}
WsCritical == {"next", "infer", "tmo", "s_chunk", "s_complete"}

InCritical(t) == pc[t] \in (IF IsHttp(t) THEN HttpCritical ELSE WsCritical)

LoopFree == \A t \in Tasks : pc[t] \in Suspended


\* ----------------------------------------------------------------- the gate
\* asyncio.Semaphore(1), as created at routes.py:26

SemInit == [value |-> 1, waiters |-> <<>>, woken |-> {}]

\* Semaphore.locked(): no permit left, or somebody is already queued
SemLocked(s) == s.value = 0 \/ Len(s.waiters) > 0

\* index in the deque of the waiter _wake_up_next picks (0: none)
NextWaiterLast(s) ==
    LET idx == {i \in 1..Len(s.waiters) : s.waiters[i] \notin s.woken}
    IN  IF idx = {} THEN 0 ELSE CHOOSE i \in idx : \A j \in idx : j <= i

NextWaiter(s) ==
    LET idx == {i \in 1..Len(s.waiters) : s.waiters[i] \notin s.woken}
    IN  IF idx = {} THEN 0 ELSE CHOOSE i \in idx : \A j \in idx : i <= j

\* a release that wakes nobody
SemWakeUpNone(s) == s

\* Semaphore._wake_up_next(): hand a permit to the first waiter whose future is not done
SemWakeUpNext(s) ==
    IF NextWaiter(s) = 0 THEN s
    ELSE [s EXCEPT !.value = @ - 1, !.woken = @ \cup {s.waiters[NextWaiter(s)]}]

\* Semaphore.release()
SemRelease(s) == SemWakeUpNext([s EXCEPT !.value = @ + 1])

\* the tail of Semaphore.acquire() once its future is done
SemResume(s, t) ==
    LET s1 == [s EXCEPT !.waiters = SelectSeq(@, LAMBDA u : u # t),
                        !.woken = @ \ {t}]
    IN  IF s1.value > 0 THEN SemWakeUpNext(s1) ELSE s1

\* leaving `async with synthesis_semaphore`; exc: the body raised
ExitGateUnlessRaised(s, exc) == IF exc THEN s ELSE SemRelease(s)

ExitGate(s, exc) == SemRelease(s)

\* which handlers wrap their engine calls in `async with synthesis_semaphore`
HttpGated == service = "adv"

WsUngated == FALSE

WsGated == service = "adv"

Gated(t) == IF IsHttp(t) THEN HttpGated ELSE WsGated

Without(q, t) == SelectSeq(q, LAMBDA u : u # t)

\* ----------------------------------------------------------------- the engine object
MaxLoads == 3    \* invocations of the model loader on one engine

\* stt-service keeps one STTEngine in the module global stt_engine
LifeServices == Services \cup {"stt"}

EngineKinds(svc) ==
    IF svc = "adv" THEN AdvEngines ELSE IF svc = "tts" THEN {"piper"} ELSE {"whisper"}

\* how one run of the body of initialize() / load_model() can end: "ok", or the
\* statement that raises (the backend's import, the model load, the Qwen3 load
\* timeout, PocketTTS' load of its default voice)
LoadOutcomes(svc, kind) ==
    IF svc = "adv" /\ kind = "kokoro" THEN {"ok", "import_error"}
    ELSE IF svc = "adv" /\ kind = "qwen3" THEN {"ok", "import_error", "load_error", "timeout"}
    ELSE IF svc = "adv" /\ kind = "pocket" THEN {"ok", "import_error", "load_error", "voice_error"}
    ELSE IF svc = "adv" THEN {"ok", "import_error", "load_error"}
    ELSE {"ok", "load_error"}

\* the engine's fields this model follows
EngineNew == [initialized |-> FALSE, model |-> FALSE, loads |-> 0]

\* initialize() with the flag set before the load
EngineInitializeFlagFirst(e, outcome) ==
    IF outcome = "import_error" THEN e
    ELSE [initialized |-> TRUE, model |-> outcome \in {"ok", "voice_error"},
          loads |-> e.loads + 1]

\* initialize() without its early return
EngineInitializeReload(e, outcome) ==
    IF outcome = "ok" THEN [initialized |-> TRUE, model |-> TRUE, loads |-> e.loads + 1]
    ELSE e

\* initialize() / load_model(): returns at once on an initialized engine; else
\* runs the loader and sets the flag as its last statement
EngineInitialize(e, outcome) ==
    IF e.initialized THEN e
    ELSE IF outcome = "ok" THEN
        [initialized |-> TRUE, model |-> TRUE, loads |-> e.loads + 1]
    ELSE IF outcome = "import_error" THEN e
    ELSE IF outcome = "voice_error" THEN [e EXCEPT !.model = TRUE, !.loads = @ + 1]
    ELSE [e EXCEPT !.loads = @ + 1]

\* initialize() raises
InitializeRaises(e, outcome) == ~e.initialized /\ outcome # "ok"

\* TTSEngine.shutdown() of tts-service; adv-tts-service has no engine shutdown
EngineShutdown(svc, e) ==
    IF svc = "tts" /\ e.initialized
    THEN [e EXCEPT !.initialized = FALSE, !.model = FALSE]
    ELSE e

\* the error synthesize() raises before it touches the backend ("none": it goes on)
SynthesizeError(kind, init) ==
    IF kind = "kokoro" THEN "not_implemented"
    ELSE IF ~init THEN "not_initialized"
    ELSE "none"

\* the error of the first step of synthesize_streaming() for a text of `units`
\* sentences: Kokoro's is a plain function that raises, PocketTTS' generator
\* tests the flag first, the others only call synthesize() per sentence
StreamFirstError(kind, init, units) ==
    IF kind = "kokoro" THEN "not_implemented"
    ELSE IF kind = "pocket" THEN (IF init THEN "none" ELSE "not_initialized")
    ELSE IF units = 0 THEN "none"
    ELSE SynthesizeError(kind, init)

\* engine.synthesize() raises before any backend call
EngineRaisesAtCall == SynthesizeError(engine, initialized) # "none"

\* synthesize_streaming(), or the first step of its generator, raises whatever the text
StreamRaisesAtCall ==
    engine = "kokoro" \/ (engine = "pocket" /\ ~initialized)

\* ----------------------------------------------------------------- audio
\* A sample is a float of [-1, 1], kept here in thousandths; a product or a
\* quotient of floats is kept to the thousandth, cut towards zero.
MaxSamples == 2  \* samples in the audio the backend generates at its natural rate

Levels == {-1000, -500, 0, 500, 1000}
Audios == UNION {[1..k -> Levels] : k \in 0..MaxSamples}

Abs(x) == IF x < 0 THEN -x ELSE x
Sgn(x) == IF x < 0 THEN -1 ELSE IF x > 0 THEN 1 ELSE 0
MulDiv(x, num, den) == Sgn(x) * ((Abs(x) * num) \div den)

RECURSIVE Peak(_)
Peak(a) ==
    IF a = <<>> THEN 0
    ELSE LET rest == Peak(Tail(a))
         IN  IF Abs(Head(a)) > rest THEN Abs(Head(a)) ELSE rest

TargetPeak == 850        \* target_peak = 0.85
Alpha == 95              \* alpha = 0.95, in hundredths
Threshold == 950         \* threshold = 0.95
Knee == 700              \* knee = 0.7
Ratio == 3               \* ratio = 3.0

\* 1. audio_data = audio_data * (target_peak / max_val) if max_val > 0
Normalize(a) ==
    IF Peak(a) > 0 THEN [i \in 1..Len(a) |-> MulDiv(a[i], TargetPeak, Peak(a))] ELSE a

\* 2. filtered[i] = alpha * filtered[i - 1] + alpha * (audio_data[i] - audio_data[i - 1])
RECURSIVE Filtered(_, _)
Filtered(a, i) ==
    IF i = 1 THEN a[1]
    ELSE MulDiv(Filtered(a, i - 1), Alpha, 100) + MulDiv(a[i] - a[i - 1], Alpha, 100)

HighPass(a) == IF Len(a) > 1 THEN [i \in 1..Len(a) |-> Filtered(a, i)] ELSE a

\* 3. np.clip(audio_data, -threshold, threshold)
Clip(a) ==
    [i \in 1..Len(a) |-> IF a[i] > Threshold THEN Threshold
                         ELSE IF a[i] < -Threshold THEN -Threshold ELSE a[i]]

\* 4. (tts-service only) the soft-knee compressor
Compress(a) ==
    [i \in 1..Len(a) |-> IF Abs(a[i]) > Knee
                         THEN Sgn(a[i]) * (Knee + (Abs(a[i]) - Knee) \div Ratio)
                         ELSE a[i]]

\* the stages of _enhance_audio, in order
EnhanceStages(svc) ==
    IF svc = "tts" THEN <<"normalize", "filter", "clip", "compress">>
    ELSE <<"normalize", "filter", "clip">>

StageSet(svc) == {EnhanceStages(svc)[i] : i \in 1..Len(EnhanceStages(svc))}

\* _enhance_audio(audio_data) when the stage `fault` raises ("none": no stage
\* does).  The stages assign their outcome to the parameter audio_data, and the
\* except clause returns audio_data as it then is.  np.abs(audio_data).max()
\* of an empty array raises by itself.
EnhanceAudio(svc, a, fault) ==
    LET f == IF a = <<>> THEN "normalize" ELSE fault
        a1 == Normalize(a)
        a2 == HighPass(a1)
        a3 == Clip(a2)
    IN  IF f = "normalize" THEN a
        ELSE IF f = "filter" THEN a1
        ELSE IF f = "clip" THEN a2
        ELSE IF svc # "tts" THEN a3
        ELSE IF f = "compress" THEN a3
        ELSE Compress(a3)

\* ----------------------------------------------------------------- encoding
SampleRates == {22050, 24000}
Formats == {"wav", "mp3", "webm", "ogg"}

\* (audio_data * 32767).astype(np.int16)
ToInt16(a) == [i \in 1..Len(a) |-> MulDiv(a[i], 32767, 1000)]

NoBytes(err) ==
    [error |-> err, nchannels |-> 0, sampwidth |-> 0, framerate |-> 0, frames |-> <<>>]

\* the WAV container wave.open(buffer, "wb") writes; setframerate raises
\* wave.Error for a rate that is not positive
WavBytes(a, rate) ==
    IF rate <= 0 THEN NoBytes("wave.Error")
    ELSE [error |-> "none", nchannels |-> 1, sampwidth |-> 2, framerate |-> rate,
          frames |-> ToInt16(a)]

\* audio_to_bytes without its fallback branches
AudioToBytesWavOnly(a, rate, format) ==
    IF format = "wav" THEN WavBytes(a, rate) ELSE NoBytes("ValueError")

\* audio_to_bytes(audio_data, sample_rate, format)
RECURSIVE AudioToBytes(_, _, _)
AudioToBytes(a, rate, format) ==
    IF format = "wav" THEN WavBytes(a, rate)
    ELSE IF format = "mp3" THEN AudioToBytes(a, rate, "wav")
    ELSE IF format = "webm" THEN AudioToBytes(a, rate, "wav")
    ELSE NoBytes("ValueError")

\* ----------------------------------------------------------------- the response of POST /synthesize
ResponseRates == {0} \cup SampleRates
ResponseFormats == {"wav", "mp3", "webm"}

Failure500 == [status |-> 500, duration |-> 0, samples |-> 0]

\* synthesize_text from the return of engine.synthesize on: audio_to_bytes,
\* the duration (in microseconds here), the log line and the response model.
\*   adv-tts-service: duration = len(audio_data) / sample_rate if sample_rate else 0
\*   tts-service:     duration = len(audio_data) / sample_rate, and the log line
\*                    formats processing_time / duration
\* Every exception becomes HTTPException(status_code=500).
HttpResponse(svc, a, rate, format) ==
    IF AudioToBytes(a, rate, format).error # "none" THEN Failure500
    ELSE IF svc = "adv" THEN
        [status |-> 200,
         duration |-> IF rate # 0 THEN (Len(a) * 1000000) \div rate ELSE 0,
         samples |-> Len(a)]
    ELSE IF rate = 0 \/ Len(a) = 0 THEN Failure500
    ELSE [status |-> 200, duration |-> (Len(a) * 1000000) \div rate, samples |-> Len(a)]

\* ----------------------------------------------------------------- voices and speed
NoVoice == ""            \* voice=None (or an empty string: `voice or ...`)
Voices == {NoVoice, "default", "alba", "Vivian", "zed"}
Speeds == {MinSpeed, 10, MaxSpeed}

\* no engine call pending in the handler
Unset == "unset"

\* the voices that can be handed to the voice loader
LoadableVoices == Voices \ {NoVoice}

\* clients that name the voice PocketTTS loads at startup
ClientVoices == {"alba"}

\* PocketTTSEngine.VOICE_CATALOG
VoiceCatalog == <<"alba", "marius", "javert", "jean", "fantine", "cosette", "eponine", "azelma">>

\* what the Qwen3 model's get_supported_speakers() may report
QwenSpeakerLists == {<<>>, <<"Vivian", "Ryan">>, <<"Ryan", "Vivian">>}

\* what the backend may report to this engine kind
BackendSpeakerLists(kind) == IF kind = "qwen3" THEN QwenSpeakerLists ELSE {<<>>}

Members(q) == {q[i] : i \in 1..Len(q)}

\* get_supported_speakers()
GetSupportedSpeakers(kind, init, reported) ==
    IF kind = "pocket" THEN VoiceCatalog
    ELSE IF kind = "qwen3" THEN (IF init THEN reported ELSE <<>>)
    ELSE <<>>

\* the speaker synthesize() hands to the backend
\*   Qwen3: voice or "Vivian", replaced by speakers[0] when the model reports
\*          speakers and the voice is not among them
\*   Pocket: voice or self.default_voice, as it is
Speaker(kind, asked, reported) ==
    IF kind = "qwen3" THEN
        LET sp == IF asked = NoVoice THEN "Vivian" ELSE asked
        IN  IF reported # <<>> /\ sp \notin Members(reported) THEN reported[1] ELSE sp
    ELSE IF kind = "pocket" THEN (IF asked = NoVoice THEN "alba" ELSE asked)
    ELSE "model"

\* a _load_voice without its early return
VoiceCachedNever(v, cache) == FALSE

\* `if voice in self.voice_states: return`
VoiceCached(v, cache) == v \in cache

\* get_state_for_audio_prompt(v) returns: a catalog voice always, another
\* voice if the backend knows it
VoiceKnown(v, known) == v \in Members(VoiceCatalog) \/ known

\* settings.tts_length_scale, in tenths
LengthScale(svc) == IF svc = "tts" THEN 11 ELSE 10

\* audio of Len(a) * num / den samples (cut to an integer) that runs through a
Stretch(a, num, den) ==
    LET n == (Len(a) * num) \div den
    IN  [i \in 1..n |-> a[((i - 1) * Len(a)) \div n + 1]]

\* the audio synthesize() has before enhancement, `a` being what the backend
\* generates at its natural rate:
\*   Piper engines: the backend is called with length_scale / speed
\*   Pocket: _adjust_speed resamples to int(len(audio) / speed) when speed != 1.0
\*   Qwen3: speed is not used
RawAudio(svc, kind, a, speed) ==
    IF kind = "piper" THEN Stretch(a, LengthScale(svc), speed)
    ELSE IF kind = "pocket" THEN (IF speed # 10 THEN Stretch(a, 10, speed) ELSE a)
    ELSE a

\* the engine applies _enhance_audio in synthesize()
Enhances(svc, kind, enable) == svc = "adv" /\ kind \in {"piper", "pocket"} /\ enable

\* the audio synthesize() returns
SynthesizeAudio(svc, kind, a, speed, enable) ==
    IF Enhances(svc, kind, enable)
    THEN EnhanceAudio(svc, RawAudio(svc, kind, a, speed), "none")
    ELSE RawAudio(svc, kind, a, speed)

\* ----------------------------------------------------------------- the registry and the probes
NoReply == [op |-> "none", status |-> 0, loaded |-> FALSE, error |-> "none", backend |-> FALSE, units |-> 0]

\* get_engine(): raises while _engine is None
GetEngineError(reg) == IF reg = "none" THEN "no_engine" ELSE "none"

\* GET /health with the flag read as true whatever the engine
HealthReplyAlwaysLoaded(reg, init) ==
    [op |-> "health", status |-> 200, loaded |-> TRUE, error |-> "none", backend |-> FALSE, units |-> 0]

\* GET /health: 503 when get_engine() raises, else model_loaded is the engine's flag
HealthReply(reg, init) ==
    IF GetEngineError(reg) # "none"
    THEN [op |-> "health", status |-> 503, loaded |-> FALSE, error |-> "no_engine", backend |-> FALSE, units |-> 0]
    ELSE [op |-> "health", status |-> 200, loaded |-> init, error |-> "none", backend |-> FALSE, units |-> 0]

\* GET /ping
PingReply == [op |-> "ping", status |-> 200, loaded |-> FALSE, error |-> "none", backend |-> FALSE, units |-> 0]

\* shutdown_engine() on the registry
RegistryShutdownKeeps(reg) == reg

RegistryShutdown(reg) == "none"

\* Qwen3 runs the backend generation in a worker thread and waits with a timeout
HasTimeout == engine = "qwen3"

\* leaving `with ThreadPoolExecutor(...)` is shutdown(wait=True): it blocks while the worker runs
ExecutorExitNoWait(workerRunning) == FALSE

ExecutorExitBlocks(workerRunning) == workerRunning

\* sequence_id += 1
NextSeqStuck(s) == s

\* a generator that synthesizes one unit ahead of the one it yields
YieldUnitAhead(p) == p + 2

\* the generator runs one synthesize() and yields its result: the units
\* synthesized so far, after p of them
YieldUnit(p) == p + 1

NextSeq(s) == s + 1

\* message_type != "synthesize" is answered with an error and `continue`
IsSynthesizeAny(m) == TRUE

IsSynthesize(m) == m.type = "synthesize"

\* ----------------------------------------------------------------- initial state
\* the modules have just been imported: no engine yet
LifeStart ==
    /\ phase = "boot"
    /\ registry = (IF service = "stt" THEN "engine" ELSE "none")
    /\ initialized = EngineNew.initialized
    /\ model = EngineNew.model
    /\ loads = EngineNew.loads
    /\ initReturned = FALSE
    /\ failure = "none"
    /\ reply = NoReply

NoVerdict == [done |-> FALSE, ok |-> FALSE, value |-> <<>>]

TextIdle ==
    /\ text = <<>>
    /\ verdict = NoVerdict

NoCall == [fn |-> "none"]
NoResult == [done |-> FALSE]

CallIdle ==
    /\ call = NoCall
    /\ result = NoResult

\* no transcribe request yet, /tmp holds none of the names
SttIdle ==
    /\ tpc = [r \in SttIds |-> "idle"]
    /\ upload = [r \in SttIds |-> NoUpload]
    /\ tstatus = [r \in SttIds |-> 0]
    /\ tcause = [r \in SttIds |-> "none"]
    /\ heard = [r \in SttIds |-> "none"]
    /\ fd = [r \in SttIds |-> NoFile]
    /\ files = [n \in Filenames |-> NoFile]
    /\ data = [i \in SttIds |-> "none"]

\* PocketTTSEngine.__init__: the cache is empty
VoiceIdle ==
    /\ voice = [t \in Tasks |-> Unset]
    /\ voice_states = {}
    /\ voice_loads = [v \in LoadableVoices |-> 0]

ReqIdle ==
    /\ pc = [t \in Tasks |-> "idle"]
    /\ sem = SemInit
    /\ order = <<>>
    /\ inflight = {}
    /\ timedOut = {}
    /\ connected = [w \in WsIds |-> FALSE]
    /\ inbox = [w \in WsIds |-> NoMsg]
    /\ total = [w \in WsIds |-> 0]
    /\ produced = [w \in WsIds |-> 0]
    /\ seq = [w \in WsIds |-> 0]
    /\ log = [w \in WsIds |-> <<>>]
    /\ nreq = [w \in WsIds |-> 0]
    /\ status = [h \in HttpIds |-> 0]
    /\ body = [h \in HttpIds |-> NoBody]
    /\ endCause = [t \in Tasks |-> "none"]

Init ==
    /\ service \in Services
    /\ engine \in EngineKinds(service)
    /\ ReqIdle
    /\ SttIdle
    /\ VoiceIdle
    /\ LifeStart
    /\ TextIdle
    /\ CallIdle

\* ----------------------------------------------------------------- shared steps
\* `async with synthesis_semaphore:` entered by task t; next: the position of the body
EnterGate(t, next) ==
    IF ~Gated(t) THEN
        /\ pc' = [pc EXCEPT ![t] = next]
        /\ UNCHANGED <<sem, order>>
    ELSE IF ~SemLocked(sem) THEN
        /\ sem' = [sem EXCEPT !.value = @ - 1]
        /\ order' = Append(order, t)
        /\ pc' = [pc EXCEPT ![t] = next]
    ELSE
        /\ sem' = [sem EXCEPT !.waiters = Append(@, t)]
        /\ order' = Append(order, t)
        /\ pc' = [pc EXCEPT ![t] = "wait"]

\* an exception leaves the handler of task t; inBody: raised inside the gated body
\* an error message sent whatever the state of the transport
ErrorReplyAlways(l, up) == Append(l, ErrorMsg)

\* the except clause's send_json(error): it reaches the client only over a live transport
ErrorReply(l, up) == IF up THEN Append(l, ErrorMsg) ELSE l

Fail(t, cause, inBody) ==
    /\ sem' = IF inBody /\ Gated(t) THEN ExitGate(sem, TRUE) ELSE sem
    /\ order' = IF inBody /\ Gated(t) THEN Without(order, t) ELSE order
    /\ endCause' = [endCause EXCEPT ![t] = cause]
    /\ IF IsHttp(t) THEN
           \* except Exception: raise HTTPException(status_code=500)
           /\ pc' = [pc EXCEPT ![t] = "done"]
           /\ status' = [status EXCEPT ![t] = 500]
           /\ UNCHANGED <<log, connected, inbox, total, produced, seq>>
       ELSE
           \* the except clause sends one error message (which fails on a dead
           \* transport) and websocket_stream returns: its locals are gone and
           \* the server closes the connection
           /\ pc' = [pc EXCEPT ![t] = "closed"]
           /\ log' = [log EXCEPT ![t] = ErrorReply(@, connected[t])]
           /\ connected' = [connected EXCEPT ![t] = FALSE]
           /\ inbox' = [inbox EXCEPT ![t] = NoMsg]
           /\ total' = [total EXCEPT ![t] = 0]
           /\ produced' = [produced EXCEPT ![t] = 0]
           /\ seq' = [seq EXCEPT ![t] = 0]
           /\ UNCHANGED status

\* a waiter whose future was set done runs again
GateResume(t) ==
    /\ pc[t] = "wait"
    /\ t \in sem.woken
    /\ LoopFree
    /\ sem' = SemResume(sem, t)
    /\ pc' = [pc EXCEPT ![t] = IF IsHttp(t) THEN "call" ELSE "next"]
    /\ UNCHANGED <<lifeVars, textVars, callVars, sttVars, voiceVars, body, service, engine, order, inflight, timedOut, connected, inbox,
                   total, produced, seq, log, nreq, status, endCause>>


\* ----------------------------------------------------------------- lifespan
\* PocketTTSEngine._load_voice(v); known: the backend has the voice
LoadVoice(v, known) ==
    IF VoiceCached(v, voice_states) THEN UNCHANGED <<voice_states, voice_loads>>
    ELSE /\ voice_loads' = [voice_loads EXCEPT ![v] = @ + 1]
         /\ voice_states' = IF known THEN voice_states \cup {v} ELSE voice_states

\* the _load_voice(self.default_voice) of PocketTTSEngine.initialize()
LoadDefaultVoice(outcome) ==
    IF engine = "pocket" /\ ~initialized /\ outcome \in {"ok", "voice_error"}
    THEN LoadVoice("alba", outcome = "ok")
    ELSE UNCHANGED <<voice_states, voice_loads>>

\* startup: initialize_engine(settings) (stt: stt_engine.load_model()) inside
\* try/except; the service then starts serving whatever happened
Startup(outcome) ==
    /\ phase = "boot"
    /\ outcome \in LoadOutcomes(service, engine)
    /\ LET e0 == [initialized |-> initialized, model |-> model, loads |-> loads]
           e == EngineInitialize(e0, outcome)
       IN  /\ registry' = "engine"
           /\ initialized' = e.initialized
           /\ model' = e.model
           /\ loads' = e.loads
           /\ initReturned' = (initReturned \/ ~InitializeRaises(e0, outcome))
           /\ failure' = IF InitializeRaises(e0, outcome) THEN outcome ELSE "none"
    /\ LoadDefaultVoice(outcome)
    /\ phase' = "serving"
    /\ UNCHANGED <<reply, textVars, callVars, sttVars, voice, reqVars, service, engine>>

Serving == phase = "serving"

\* ----------------------------------------------------------------- POST /synthesize, /synthesize/binary
\* synthesize_text starts and reaches `async with synthesis_semaphore` (adv) or its try (tts)
HttpRequest(h, b, v) ==
    /\ Serving
    /\ pc[h] = "idle"
    /\ LoopFree
    /\ body' = [body EXCEPT ![h] = b]
    /\ IF ValidBody(b) THEN
           /\ EnterGate(h, "call")
           /\ voice' = [voice EXCEPT ![h] = v]
           /\ UNCHANGED status
       ELSE
           \* 422: the handler is never called
           /\ status' = [status EXCEPT ![h] = 422]
           /\ pc' = [pc EXCEPT ![h] = "done"]
           /\ UNCHANGED <<sem, order, voice>>
    /\ UNCHANGED <<lifeVars, textVars, callVars, sttVars, voice_states, voice_loads, service, engine, inflight, timedOut, connected,
                   inbox, total, produced, seq, log, nreq, endCause>>

\* synthesize_binary starts: the same statements up to the response
HttpBinaryRequest(h, b, v) ==
    /\ Serving
    /\ pc[h] = "idle"
    /\ LoopFree
    /\ body' = [body EXCEPT ![h] = b]
    /\ IF ValidBody(b) THEN
           /\ EnterGate(h, "call")
           /\ voice' = [voice EXCEPT ![h] = v]
           /\ UNCHANGED status
       ELSE
           \* 422: the handler is never called
           /\ status' = [status EXCEPT ![h] = 422]
           /\ pc' = [pc EXCEPT ![h] = "done"]
           /\ UNCHANGED <<sem, order, voice>>
    /\ UNCHANGED <<lifeVars, textVars, callVars, sttVars, voice_states, voice_loads, service, engine, inflight, timedOut, connected,
                   inbox, total, produced, seq, log, nreq, endCause>>

\* engine.synthesize(...) is called
HttpCallEngine(h) ==
    /\ pc[h] = "call"
    /\ \E known \in BOOLEAN :
        LET sp == Speaker(engine, voice[h], <<>>)
            loading == engine = "pocket" /\ ~EngineRaisesAtCall
            \* PocketTTS: _load_voice(voice) raises
            unknown == loading /\ ~VoiceCached(sp, voice_states) /\ ~VoiceKnown(sp, known)
        IN  /\ IF loading THEN LoadVoice(sp, VoiceKnown(sp, known))
               ELSE UNCHANGED <<voice_states, voice_loads>>
            /\ IF EngineRaisesAtCall \/ unknown THEN
                   /\ Fail(h, "engine_error", TRUE)
                   /\ UNCHANGED inflight
               ELSE
                   /\ pc' = [pc EXCEPT ![h] = "infer"]
                   /\ inflight' = inflight \cup {h}
                   /\ UNCHANGED <<sem, order, connected, inbox, total, produced, seq, log,
                                  status, endCause>>
    /\ voice' = [voice EXCEPT ![h] = Unset]
    /\ UNCHANGED <<lifeVars, textVars, callVars, sttVars, body, service, engine, timedOut, nreq>>

\* synthesize returns; the response is built and the gate is left
HttpInferenceReturns(h) ==
    /\ pc[h] = "infer"
    /\ inflight' = inflight \ {h}
    /\ status' = [status EXCEPT ![h] = 200]
    /\ sem' = IF Gated(h) THEN ExitGate(sem, FALSE) ELSE sem
    /\ order' = IF Gated(h) THEN Without(order, h) ELSE order
    /\ pc' = [pc EXCEPT ![h] = "done"]
    /\ UNCHANGED <<lifeVars, textVars, callVars, sttVars, voiceVars, body, service, engine, timedOut, connected, inbox, total, produced,
                   seq, log, nreq, endCause>>

\* the backend faults: synthesize raises
HttpInferenceRaises(h) ==
    /\ pc[h] = "infer"
    /\ inflight' = inflight \ {h}
    /\ Fail(h, "engine_error", TRUE)
    /\ UNCHANGED <<lifeVars, textVars, callVars, sttVars, voiceVars, body, service, engine, timedOut, nreq>>

\* ----------------------------------------------------------------- Qwen3Engine.synthesize
\* future.result(timeout=synthesize_timeout_s) expires while the worker still runs
Qwen3Timeout(t) ==
    /\ HasTimeout
    /\ pc[t] = "infer"
    /\ timedOut' = timedOut \cup {t}
    /\ IF ExecutorExitBlocks(t \in inflight) THEN
           /\ pc' = [pc EXCEPT ![t] = "tmo"]
           /\ UNCHANGED <<sem, order, connected, inbox, total, produced, seq, log,
                          status, endCause>>
       ELSE
           Fail(t, "timeout", TRUE)
    /\ UNCHANGED <<lifeVars, textVars, callVars, sttVars, voiceVars, body, service, engine, inflight, nreq>>

\* the worker's generation ends; the executor's exit returns and the timeout error is raised
Qwen3WorkerEnds(t) ==
    /\ pc[t] = "tmo"
    /\ inflight' = inflight \ {t}
    /\ Fail(t, "timeout", TRUE)
    /\ UNCHANGED <<lifeVars, textVars, callVars, sttVars, voiceVars, body, service, engine, timedOut, nreq>>

\* ----------------------------------------------------------------- WS /stream
\* websocket.accept(); get_engine(); the loop awaits the first message
WsConnect(w) ==
    /\ Serving
    /\ pc[w] = "idle"
    /\ LoopFree
    /\ pc' = [pc EXCEPT ![w] = "recv"]
    /\ connected' = [connected EXCEPT ![w] = TRUE]
    /\ UNCHANGED <<lifeVars, textVars, callVars, sttVars, voiceVars, body, service, engine, sem, order, inflight, timedOut, inbox, total,
                   produced, seq, log, nreq, status, endCause>>

\* the client sends a message (log: what it has been sent since)
ClientSend(w, m) ==
    /\ connected[w]
    /\ pc[w] = "recv"
    /\ inbox[w] = NoMsg
    /\ nreq[w] < MaxReqs
    /\ inbox' = [inbox EXCEPT ![w] = m]
    /\ log' = [log EXCEPT ![w] = <<>>]
    /\ UNCHANGED <<lifeVars, textVars, callVars, sttVars, voiceVars, body, service, engine, pc, sem, order, inflight, timedOut, connected,
                   total, produced, seq, nreq, status, endCause>>

\* the client goes away
ClientDisconnect(w) ==
    /\ connected[w]
    /\ connected' = [connected EXCEPT ![w] = FALSE]
    /\ UNCHANGED <<lifeVars, textVars, callVars, sttVars, voiceVars, body, service, engine, pc, sem, order, inflight, timedOut, inbox,
                   total, produced, seq, log, nreq, status, endCause>>

\* receive_json() returns a message
WsReceive(w, v) ==
    /\ pc[w] = "recv"
    /\ LoopFree
    /\ inbox[w] # NoMsg
    /\ nreq' = [nreq EXCEPT ![w] = @ + 1]
    /\ IF ~IsSynthesize(inbox[w]) THEN
           IF connected[w] THEN
               /\ log' = [log EXCEPT ![w] = Append(@, ErrorMsg)]
               /\ inbox' = [inbox EXCEPT ![w] = NoMsg]
               /\ UNCHANGED <<pc, sem, order, connected, total, produced, seq,
                              status, endCause, voice>>
           ELSE
               /\ Fail(w, "reply_failed", FALSE)
               /\ UNCHANGED voice
       ELSE
           /\ inbox' = [inbox EXCEPT ![w] = NoMsg]
           /\ total' = [total EXCEPT ![w] = inbox[w].units]
           /\ produced' = [produced EXCEPT ![w] = 0]
           /\ seq' = [seq EXCEPT ![w] = 0]
           /\ voice' = [voice EXCEPT ![w] = v]
           /\ EnterGate(w, "next")
           /\ UNCHANGED <<connected, log, status, endCause>>
    /\ UNCHANGED <<lifeVars, textVars, callVars, sttVars, voice_states, voice_loads, body, service, engine, inflight, timedOut>>

\* receive_json() raises: the client is gone
WsRecvDisconnect(w) ==
    /\ pc[w] = "recv"
    /\ LoopFree
    /\ inbox[w] = NoMsg
    /\ ~connected[w]
    /\ Fail(w, "disconnect", FALSE)
    /\ UNCHANGED <<lifeVars, textVars, callVars, sttVars, voiceVars, body, service, engine, inflight, timedOut, nreq>>

\* the for statement asks the generator for its next unit
WsNext(w) ==
    /\ pc[w] = "next"
    /\ \E known \in BOOLEAN :
        LET sp == Speaker(engine, voice[w], <<>>)
            \* PocketTTS: the generator's first step runs _load_voice(voice)
            loading == voice[w] # Unset /\ engine = "pocket" /\ ~StreamRaisesAtCall
            unknown == loading /\ ~VoiceCached(sp, voice_states) /\ ~VoiceKnown(sp, known)
        IN  /\ IF loading THEN LoadVoice(sp, VoiceKnown(sp, known))
               ELSE UNCHANGED <<voice_states, voice_loads>>
            /\ IF StreamRaisesAtCall \/ unknown
                     \/ (produced[w] < total[w] /\ EngineRaisesAtCall) THEN
                   /\ Fail(w, "engine_error", TRUE)
                   /\ UNCHANGED inflight
               ELSE IF produced[w] < total[w] THEN
                   /\ pc' = [pc EXCEPT ![w] = "infer"]
                   /\ inflight' = inflight \cup {w}
                   /\ UNCHANGED <<sem, order, connected, inbox, total, produced, seq, log,
                                  status, endCause>>
               ELSE IF connected[w] THEN
                   /\ log' = [log EXCEPT ![w] = Append(@, CompleteMsg(seq[w]))]
                   /\ pc' = [pc EXCEPT ![w] = "s_complete"]
                   /\ UNCHANGED <<sem, order, connected, inbox, total, produced, seq,
                                  inflight, status, endCause>>
               ELSE
                   /\ Fail(w, "send_failed", TRUE)
                   /\ UNCHANGED inflight
    /\ voice' = [voice EXCEPT ![w] = Unset]
    /\ UNCHANGED <<lifeVars, textVars, callVars, sttVars, body, service, engine, timedOut, nreq>>

\* the unit's synthesize returns; the chunk is encoded and sent
WsInferenceReturns(w) ==
    /\ pc[w] = "infer"
    /\ inflight' = inflight \ {w}
    /\ IF connected[w] THEN
           /\ produced' = [produced EXCEPT ![w] = YieldUnit(@)]
           /\ log' = [log EXCEPT ![w] = Append(@, ChunkMsg(seq[w]))]
           /\ pc' = [pc EXCEPT ![w] = "s_chunk"]
           /\ UNCHANGED <<sem, order, connected, inbox, total, seq, status, endCause>>
       ELSE
           Fail(w, "send_failed", TRUE)
    /\ UNCHANGED <<lifeVars, textVars, callVars, sttVars, voiceVars, body, service, engine, timedOut, nreq>>

\* the unit's synthesize raises
WsInferenceRaises(w) ==
    /\ pc[w] = "infer"
    /\ inflight' = inflight \ {w}
    /\ Fail(w, "engine_error", TRUE)
    /\ UNCHANGED <<lifeVars, textVars, callVars, sttVars, voiceVars, body, service, engine, timedOut, nreq>>

\* send_json(audio_chunk) returns
WsChunkSent(w) ==
    /\ pc[w] = "s_chunk"
    /\ LoopFree
    /\ seq' = [seq EXCEPT ![w] = NextSeq(@)]
    /\ pc' = [pc EXCEPT ![w] = "next"]
    /\ UNCHANGED <<lifeVars, textVars, callVars, sttVars, voiceVars, body, service, engine, sem, order, inflight, timedOut, connected,
                   inbox, total, produced, log, nreq, status, endCause>>

\* send_json(complete) returns; the gate is left and the loop awaits the next message
\* (the generator is exhausted and sequence_id is dead until it is set to 0 again)
WsCompleteSent(w) ==
    /\ pc[w] = "s_complete"
    /\ LoopFree
    /\ sem' = IF Gated(w) THEN ExitGate(sem, FALSE) ELSE sem
    /\ order' = IF Gated(w) THEN Without(order, w) ELSE order
    /\ pc' = [pc EXCEPT ![w] = "recv"]
    /\ total' = [total EXCEPT ![w] = 0]
    /\ produced' = [produced EXCEPT ![w] = 0]
    /\ seq' = [seq EXCEPT ![w] = 0]
    /\ UNCHANGED <<lifeVars, textVars, callVars, sttVars, voiceVars, body, service, engine, inflight, timedOut, connected, inbox, log,
                   nreq, status, endCause>>

\* a suspended send_json raises: the transport went down under it
WsSendInterrupted(w) ==
    /\ pc[w] \in {"s_chunk", "s_complete"}
    /\ LoopFree
    /\ ~connected[w]
    /\ Fail(w, "send_failed", TRUE)
    /\ UNCHANGED <<lifeVars, textVars, callVars, sttVars, voiceVars, body, service, engine, inflight, timedOut, nreq>>

\* ----------------------------------------------------------------- specification
\* one step of the service whose clients post bodies of `bodies` and send messages of `msgs`
Step(bodies, msgs, voices) ==
    \/ \E o \in LoadOutcomes(service, engine) : Startup(o)
    \/ \E h \in HttpIds : \E b \in bodies : \E v \in voices : HttpRequest(h, b, v)
    \/ \E h \in HttpIds : \E b \in bodies : \E v \in voices : HttpBinaryRequest(h, b, v)
    \/ \E h \in HttpIds : HttpCallEngine(h)
    \/ \E h \in HttpIds : HttpInferenceReturns(h)
    \/ \E h \in HttpIds : HttpInferenceRaises(h)
    \/ \E t \in Tasks : GateResume(t)
    \/ \E t \in Tasks : Qwen3Timeout(t)
    \/ \E t \in Tasks : Qwen3WorkerEnds(t)
    \/ \E w \in WsIds : WsConnect(w)
    \/ \E w \in WsIds : \E m \in msgs : ClientSend(w, m)
    \/ \E w \in WsIds : ClientDisconnect(w)
    \/ \E w \in WsIds : \E v \in voices : WsReceive(w, v)
    \/ \E w \in WsIds : WsRecvDisconnect(w)
    \/ \E w \in WsIds : WsNext(w)
    \/ \E w \in WsIds : WsInferenceReturns(w)
    \/ \E w \in WsIds : WsInferenceRaises(w)
    \/ \E w \in WsIds : WsChunkSent(w)
    \/ \E w \in WsIds : WsCompleteSent(w)
    \/ \E w \in WsIds : WsSendInterrupted(w)

\* Clients that keep to the request and message formats: a rejected POST never
\* reaches a handler, and the stream handler treats a message that breaks the
\* constraints of StreamMessage like any other (IntakeSpec has both).
AcceptedBodies == {b \in HttpBodies : ValidBody(b)}
ConformingMsgs == {m \in ClientMsgs : m.viol = "none"}

Next == Step(AcceptedBodies, ConformingMsgs, ClientVoices)

Spec == Init /\ [][Next]_vars

\* the engines that take a voice, behind the gate; their clients leave the
\* voice out (HTTP: the request model's "default", WS: data.get("voice", "default"))
\* or send null
VoiceInit == Init /\ service = "adv" /\ engine \in {"pocket", "qwen3"}

RequestVoices == {NoVoice, "default"}

VoiceMsgs == {SynthMsg(1), OtherMsg}

VoiceNext == Step(AcceptedBodies, VoiceMsgs, RequestVoices)

VoiceSpec == VoiceInit /\ [][VoiceNext]_vars

\* every client input
IntakeNext == Step(HttpBodies, ClientMsgs, ClientVoices)

IntakeSpec == Init /\ [][IntakeNext]_vars

\* what the event loop and the engine do for task t once its client has acted:
\* the loop runs every ready task, and an inference that has begun ends (it
\* returns, raises, or its worker ends after the timeout)
Progress(t) ==
    \/ GateResume(t)
    \/ Qwen3WorkerEnds(t)
    \/ t \in HttpIds /\ (HttpCallEngine(t) \/ HttpInferenceReturns(t) \/ HttpInferenceRaises(t))
    \/ t \in WsIds /\ (\/ (\E v \in ClientVoices : WsReceive(t, v)) \/ WsRecvDisconnect(t) \/ WsNext(t)
                        \/ WsInferenceReturns(t) \/ WsInferenceRaises(t)
                        \/ WsChunkSent(t) \/ WsCompleteSent(t) \/ WsSendInterrupted(t))

Fairness == \A t \in Tasks : WF_vars(Progress(t))

\* the service with the gate, run with the engine that has the timeout
LiveInit == Init /\ service = "adv" /\ engine = "qwen3"

LiveSpec == LiveInit /\ [][Next]_vars /\ Fairness

\* ----------------------------------------------------------------- the engine and the registry on their own
\* The lifespan, the probes and direct calls of the engine's and the registry's
\* functions, with no synthesis request in the picture.
EngineNow == [initialized |-> initialized, model |-> model, loads |-> loads]

RegistryState ==
    IF registry = "none" \/ phase = "boot" THEN "Uninitialized"
    ELSE IF initialized THEN "Ready"
    ELSE "Failed"

\* probe handlers that enter the gate as the synthesis handlers do
ProbeWaitsOnGate(s) == SemLocked(s)

\* a probe handler has to wait when the gate is in state s: health_check and
\* ping have no `async with synthesis_semaphore`
ProbeWaits(s) == FALSE

\* GET /health (stt: GET /health of stt-service main.py reads stt_engine.model_loaded)
\* The handler runs on the event loop, between the steps of the other handlers.
Health ==
    /\ Serving
    /\ LoopFree
    /\ ~ProbeWaits(sem)
    /\ reply' = HealthReply(registry, initialized)
    /\ UNCHANGED <<phase, registry, initialized, model, loads, initReturned, failure,
                   textVars, sttVars, voiceVars, callVars, reqVars, service, engine>>

\* GET /ping
Ping ==
    /\ Serving
    /\ LoopFree
    /\ ~ProbeWaits(sem)
    /\ reply' = PingReply
    /\ UNCHANGED <<phase, registry, initialized, model, loads, initReturned, failure,
                   textVars, sttVars, voiceVars, callVars, reqVars, service, engine>>

\* get_engine()
GetEngine ==
    /\ service # "stt"
    /\ reply' = [NoReply EXCEPT !.op = "get_engine", !.error = GetEngineError(registry)]
    /\ UNCHANGED <<phase, registry, initialized, model, loads, initReturned, failure,
                   textVars, sttVars, voiceVars, callVars, reqVars, service, engine>>

\* shutdown_engine(), from the lifespan's exit or called before any startup
\* (stt-service's lifespan exit only logs)
ShutdownEngine ==
    /\ phase \in {"boot", "serving"}
    /\ phase' = "stopped"
    /\ IF service = "stt" THEN UNCHANGED <<registry, initialized, model>>
       ELSE LET e == IF registry = "engine" THEN EngineShutdown(service, EngineNow)
                     ELSE EngineNow
            IN  /\ registry' = RegistryShutdown(registry)
                /\ initialized' = e.initialized
                /\ model' = e.model
    /\ UNCHANGED <<loads, initReturned, failure, reply, textVars, callVars, sttVars, voiceVars, reqVars, service, engine>>

\* engine.initialize() / stt_engine.load_model() called on the engine the registry holds
EngineInitializeAgain(outcome) ==
    /\ Serving
    /\ registry = "engine"
    /\ loads < MaxLoads
    /\ outcome \in LoadOutcomes(service, engine)
    /\ LET e == EngineInitialize(EngineNow, outcome)
       IN  /\ initialized' = e.initialized
           /\ model' = e.model
           /\ loads' = e.loads
    /\ initReturned' = (initReturned \/ ~InitializeRaises(EngineNow, outcome))
    /\ reply' = [NoReply EXCEPT !.op = "initialize",
                                !.error = IF InitializeRaises(EngineNow, outcome)
                                          THEN outcome ELSE "none"]
    /\ LoadDefaultVoice(outcome)
    /\ UNCHANGED <<phase, registry, failure, textVars, callVars, sttVars, voice, reqVars, service, engine>>

\* engine.synthesize(...) called directly: the backend is reached when no error
\* is raised ahead of it
EngineSynthesize ==
    /\ Serving
    /\ registry = "engine"
    /\ service # "stt"
    /\ LET err == SynthesizeError(engine, initialized)
       IN  reply' = [NoReply EXCEPT !.op = "synthesize", !.error = err,
                                    !.backend = (err = "none"), !.units = 1]
    /\ UNCHANGED <<phase, registry, initialized, model, loads, initReturned, failure,
                   textVars, sttVars, voiceVars, callVars, reqVars, service, engine>>

\* the first next() on engine.synthesize_streaming(text, ...), text of n sentences
EngineStreamFirst(n) ==
    /\ Serving
    /\ registry = "engine"
    /\ service # "stt"
    /\ LET err == StreamFirstError(engine, initialized, n)
       IN  reply' = [NoReply EXCEPT !.op = "stream", !.error = err,
                                    !.backend = (err = "none" /\ (n > 0 \/ engine = "pocket")),
                                    !.units = n]
    /\ UNCHANGED <<phase, registry, initialized, model, loads, initReturned, failure,
                   textVars, sttVars, voiceVars, callVars, reqVars, service, engine>>

LifeInit ==
    /\ service \in LifeServices
    /\ engine \in EngineKinds(service)
    /\ ReqIdle
    /\ SttIdle
    /\ VoiceIdle
    /\ LifeStart
    /\ TextIdle
    /\ CallIdle

LifeNext ==
    \/ \E o \in LoadOutcomes(service, engine) : Startup(o)
    \/ Health
    \/ Ping
    \/ GetEngine
    \/ ShutdownEngine
    \/ \E o \in LoadOutcomes(service, engine) : EngineInitializeAgain(o)
    \/ EngineSynthesize
    \/ \E n \in 0..MaxUnits : EngineStreamFirst(n)

LifeSpec == LifeInit /\ [][LifeNext]_vars

\* ----------------------------------------------------------------- probes beside the synthesis requests
ProbeNext ==
    \/ Next
    \/ Health
    \/ Ping

ProbeSpec == LiveInit /\ [][ProbeNext]_vars

\* ----------------------------------------------------------------- request validation on its own
\* a text arrives in the body of POST /synthesize and the request model is built
ValidateRequestText ==
    /\ ~verdict.done
    /\ verdict' = [done |-> TRUE, ok |-> ValidateText(text).ok,
                   value |-> ValidateText(text).value]
    /\ UNCHANGED <<text, lifeVars, callVars, sttVars, voiceVars, reqVars, service, engine>>

TextInit ==
    /\ service \in Services
    /\ engine \in EngineKinds(service)
    /\ ReqIdle
    /\ SttIdle
    /\ VoiceIdle
    /\ LifeStart
    /\ text \in Texts
    /\ verdict = NoVerdict
    /\ CallIdle

TextNext == ValidateRequestText

TextSpec == TextInit /\ [][TextNext]_vars

\* ----------------------------------------------------------------- engine functions on their own
\* One call of one engine function on the engine of a serving process, the
\* engine being initialized or not.
MaxChunks == 3   \* chunks the Pocket backend's generate_audio_streaming may yield

StreamCalls == {[fn |-> "synthesize_streaming", text |-> t] : t \in StreamTexts}

SynthesizeCalls ==
    {[fn |-> "synthesize", voice |-> v, speed |-> sp, audio |-> a, enable |-> en] :
        v \in Voices, sp \in Speeds, a \in Audios, en \in BOOLEAN}

SpeakerCalls == {[fn |-> "get_supported_speakers"]}

EnhanceCalls ==
    {[fn |-> "_enhance_audio", audio |-> a, fault |-> f] :
        a \in Audios, f \in {"none"} \cup StageSet("tts")}

EncodeCalls ==
    {[fn |-> "audio_to_bytes", audio |-> a, rate |-> r, format |-> fmt] :
        a \in Audios, r \in SampleRates, fmt \in Formats}

AdjustCalls ==
    {[fn |-> "_adjust_speed", audio |-> a, speed |-> sp] :
        a \in Audios, sp \in MinSpeed..MaxSpeed}

ResponseCalls ==
    {[fn |-> "synthesize_text", audio |-> a, rate |-> r, format |-> fmt] :
        a \in Audios, r \in ResponseRates, fmt \in ResponseFormats}

EngineCalls ==
    StreamCalls \cup SynthesizeCalls \cup SpeakerCalls \cup EnhanceCalls \cup EncodeCalls
        \cup AdjustCalls \cup ResponseCalls

Returns(r) == [done |-> TRUE] @@ r

\* next() until exhaustion on engine.synthesize_streaming(text, ...): what the
\* generator yields, each result by the text it was synthesized from
\*   Piper, Qwen3, TTSEngine: one synthesize() per sentence
\*   Pocket: one result per chunk of model.generate_audio_streaming(state, text)
\*   Kokoro: raises
SynthesizeStreaming ==
    /\ call.fn = "synthesize_streaming"
    /\ ~result.done
    /\ LET sentences == SplitIntoSentences(call.text)
           err == StreamFirstError(engine, initialized, Len(sentences))
       IN  IF err # "none" THEN
               result' = Returns([error |-> err, yields |-> <<>>])
           ELSE IF engine = "pocket" THEN
               \E n \in 0..MaxChunks :
                   result' = Returns([error |-> "none",
                                      yields |-> [i \in 1..n |-> call.text]])
           ELSE
               result' = Returns([error |-> "none", yields |-> sentences])
    /\ UNCHANGED <<call, lifeVars, textVars, sttVars, voiceVars, reqVars, service, engine>>

\* engine.synthesize(text, speed, sample_rate, voice=...); the Pocket backend
\* may or may not know a voice that is not in the catalog
Synthesize ==
    /\ call.fn = "synthesize"
    /\ ~result.done
    /\ \E reported \in BackendSpeakerLists(engine), known \in BOOLEAN :
        LET err == SynthesizeError(engine, initialized)
            sp == Speaker(engine, call.voice, reported)
            unknown == engine = "pocket" /\ sp \notin Members(VoiceCatalog) /\ ~known
        IN  /\ engine # "pocket" \/ sp \notin Members(VoiceCatalog) \/ known
            /\ IF err # "none" \/ unknown THEN
                   result' = Returns([error |-> IF err # "none" THEN err ELSE "voice_error",
                                      speaker |-> IF err # "none" THEN "none" ELSE sp,
                                      reported |-> reported,
                                      raw |-> <<>>, audio |-> <<>>])
               ELSE
                   result' = Returns([error |-> "none", speaker |-> sp,
                                      reported |-> reported,
                                      raw |-> RawAudio(service, engine, call.audio, call.speed),
                                      audio |-> SynthesizeAudio(service, engine, call.audio,
                                                                call.speed, call.enable)])
    /\ UNCHANGED <<call, lifeVars, textVars, sttVars, voiceVars, reqVars, service, engine>>

\* engine.get_supported_speakers()
SupportedSpeakers ==
    /\ call.fn = "get_supported_speakers"
    /\ ~result.done
    /\ service = "adv"
    /\ \E reported \in BackendSpeakerLists(engine) :
        result' = Returns([speakers |-> GetSupportedSpeakers(engine, initialized, reported)])
    /\ UNCHANGED <<call, lifeVars, textVars, sttVars, voiceVars, reqVars, service, engine>>

\* engine._enhance_audio(audio_data), one of its stages raising or none
Enhance ==
    /\ call.fn = "_enhance_audio"
    /\ ~result.done
    /\ call.fault \in {"none"} \cup StageSet(service)
    /\ result' = Returns([audio |-> EnhanceAudio(service, call.audio, call.fault)])
    /\ UNCHANGED <<call, lifeVars, textVars, sttVars, voiceVars, reqVars, service, engine>>

\* engine.audio_to_bytes(audio_data, sample_rate, format)
Encode ==
    /\ call.fn = "audio_to_bytes"
    /\ ~result.done
    /\ result' = Returns([bytes |-> AudioToBytes(call.audio, call.rate, call.format)])
    /\ UNCHANGED <<call, lifeVars, textVars, sttVars, voiceVars, reqVars, service, engine>>

\* PocketTTSEngine._adjust_speed(audio, speed)
AdjustSpeed ==
    /\ call.fn = "_adjust_speed"
    /\ ~result.done
    /\ engine = "pocket"
    /\ result' = Returns([audio |-> Stretch(call.audio, 10, call.speed)])
    /\ UNCHANGED <<call, lifeVars, textVars, sttVars, voiceVars, reqVars, service, engine>>

\* synthesize_text after engine.synthesize has returned audio and a sample rate
Respond ==
    /\ call.fn = "synthesize_text"
    /\ ~result.done
    /\ initialized
    /\ engine # "kokoro"
    /\ result' = Returns(HttpResponse(service, call.audio, call.rate, call.format))
    /\ UNCHANGED <<call, lifeVars, textVars, sttVars, voiceVars, reqVars, service, engine>>

\* a serving process whose startup initialization succeeded or failed
CallInit ==
    /\ service \in Services
    /\ engine \in EngineKinds(service)
    /\ ReqIdle
    /\ SttIdle
    /\ VoiceIdle
    /\ TextIdle
    /\ phase = "serving"
    /\ registry = "engine"
    /\ initialized \in BOOLEAN
    /\ model = initialized
    /\ loads \in {0, 1}
    /\ initReturned = initialized
    /\ failure = (IF initialized THEN "none" ELSE "import_error")
    /\ initialized => loads = 1
    /\ ~initialized => loads = 0
    /\ reply = NoReply
    /\ call \in EngineCalls
    /\ result = NoResult

CallNext ==
    \/ SynthesizeStreaming
    \/ Synthesize
    \/ SupportedSpeakers
    \/ Enhance
    \/ Encode
    \/ AdjustSpeed
    \/ Respond

CallSpec == CallInit /\ [][CallNext]_vars

\* ----------------------------------------------------------------- Qwen3Engine.initialize, step by step
\* The lifespan calls initialize_engine, which builds the Qwen3 engine and calls
\* its initialize(); the model load runs in a worker thread of a
\* ThreadPoolExecutor used as a context manager, and the caller waits for it in
\* future.result(timeout=init_timeout_s).  Time is counted in ticks.
MaxClock == 6        \* ticks followed
MaxTimeout == 3      \* largest init_timeout_s
MaxLoadTime == 5     \* longest load that ends

\* a load that returns after `at` ticks, or that never returns
LoadEnds(at) == [ends |-> TRUE, at |-> at]
LoadHangs == [ends |-> FALSE, at |-> 0]

InitializeCalls ==
    {[fn |-> "initialize", timeout |-> tmo, load |-> ld] :
        tmo \in 1..MaxTimeout,
        ld \in {LoadEnds(n) : n \in 1..MaxLoadTime} \cup {LoadHangs}}

LoadStart == [done |-> FALSE, pc |-> "start", clock |-> 0]

\* the worker thread is still inside Qwen3TTSModel.from_pretrained
WorkerRunning == ~(call.load.ends /\ result.clock >= call.load.at)

\* initialize_engine: _engine = Qwen3Engine(...); initialize() up to executor.submit
LoadSubmit ==
    /\ phase = "boot"
    /\ result.pc = "start"
    /\ registry' = "engine"
    /\ loads' = loads + 1
    /\ result' = [result EXCEPT !.pc = "result"]
    /\ UNCHANGED <<phase, initialized, model, initReturned, failure, reply,
                   call, textVars, sttVars, voiceVars, reqVars, service, engine>>

\* a tick passes; future.result does not outlast its timeout
LoadTick ==
    /\ result.pc \in {"result", "exit_ok", "exit_raise"}
    /\ result.clock < MaxClock
    /\ WorkerRunning
    /\ result.pc = "result" => result.clock < call.timeout
    /\ result' = [result EXCEPT !.clock = @ + 1]
    /\ UNCHANGED <<call, lifeVars, textVars, sttVars, voiceVars, reqVars, service, engine>>

\* future.result returns the model: self.model = ...
LoadReturns ==
    /\ result.pc = "result"
    /\ ~WorkerRunning
    /\ model' = TRUE
    /\ result' = [result EXCEPT !.pc = "exit_ok"]
    /\ UNCHANGED <<phase, registry, initialized, loads, initReturned, failure, reply,
                   call, textVars, sttVars, voiceVars, reqVars, service, engine>>

\* future.result raises TimeoutError; RuntimeError is raised inside the with block
LoadTimesOut ==
    /\ result.pc = "result"
    /\ WorkerRunning
    /\ result.clock >= call.timeout
    /\ result' = [result EXCEPT !.pc = "exit_raise"]
    /\ UNCHANGED <<call, lifeVars, textVars, sttVars, voiceVars, reqVars, service, engine>>

\* the with block is left: ThreadPoolExecutor.__exit__ is shutdown(wait=True);
\* then initialize() sets the flag and returns, or the RuntimeError goes on
LoadExecutorExit ==
    /\ result.pc \in {"exit_ok", "exit_raise"}
    /\ ~ExecutorExitBlocks(WorkerRunning)
    /\ initialized' = (result.pc = "exit_ok")
    /\ result' = [result EXCEPT !.pc = IF result.pc = "exit_ok" THEN "returned" ELSE "raised"]
    /\ UNCHANGED <<phase, registry, model, loads, initReturned, failure, reply,
                   call, textVars, sttVars, voiceVars, reqVars, service, engine>>

\* the lifespan's try statement ends (its except clause logs) and it yields:
\* the process serves
LoadLifespanYields ==
    /\ phase = "boot"
    /\ result.pc \in {"returned", "raised"}
    /\ phase' = "serving"
    /\ initReturned' = (result.pc = "returned")
    /\ failure' = (IF result.pc = "raised" THEN "timeout" ELSE "none")
    /\ result' = [result EXCEPT !.done = TRUE]
    /\ UNCHANGED <<registry, initialized, model, loads, reply,
                   call, textVars, sttVars, voiceVars, reqVars, service, engine>>

LoadInit ==
    /\ service = "adv"
    /\ engine = "qwen3"
    /\ ReqIdle
    /\ SttIdle
    /\ VoiceIdle
    /\ LifeStart
    /\ TextIdle
    /\ call \in InitializeCalls
    /\ result = LoadStart

LoadNext ==
    \/ LoadSubmit
    \/ LoadTick
    \/ LoadReturns
    \/ LoadTimesOut
    \/ LoadExecutorExit
    \/ LoadLifespanYields

\* every step that can be taken is taken in the end: the handler's own steps
\* and the passing of time
LoadSpec == LoadInit /\ [][LoadNext]_vars /\ WF_vars(LoadNext)

\* ----------------------------------------------------------------- POST /api/stt/transcribe
\* The handler of stt-service.  It has one await, `await audio.read()` inside
\* the open temp file; everything else, the model load and the transcription
\* included, runs on the event loop without giving it away.  A file of /tmp is
\* known by the request that created it; its name goes with unlink, the file
\* itself when no name and no open file object refers to it.

\* a task check that lets every value through
TaskAny(task) == TRUE

\* `if task not in ["transcribe", "translate"]`
TaskAllowed(task) == task \in {"transcribe", "translate"}

\* a transcribe that never loads
NeedsLoadNever(loaded) == FALSE

\* `if not self.model_loaded: self.load_model()`
NeedsLoad(loaded) == ~loaded

BackendOutcomes == {"ok", "backend_error"}

Tmp == [files |-> files, data |-> data]

\* open(temp_file, "wb"): creates the file, or empties the one the name has
OpenWb(fs, name, r) ==
    IF fs.files[name] = NoFile
    THEN [files |-> [fs.files EXCEPT ![name] = r], data |-> [fs.data EXCEPT ![r] = "empty"]]
    ELSE [fs EXCEPT !.data[fs.files[name]] = "empty"]

\* the files that still have a name or an open file object
Kept(names, fds, contents) ==
    [i \in SttIds |->
        IF (\E n \in Filenames : names[n] = i) \/ (\E r \in SttIds : fds[r] = i)
        THEN contents[i] ELSE "none"]

\* f.write(content) and the end of the with block, stt_engine.transcribe(path),
\* the except clause and the finally clause, for request r with upload u, its
\* file object open on `ino`; lo, bo: how a model load and the backend's
\* transcription would end (the backend cannot decode a file that is not
\* there or has no bytes)
SttComplete(r, u, fs, ino, lo, bo) ==
    LET written == [fs.data EXCEPT ![ino] = r]
        e0 == EngineNow
        loading == NeedsLoad(initialized)
        e1 == IF loading THEN EngineInitialize(e0, lo) ELSE e0
        loadFails == loading /\ InitializeRaises(e0, lo)
        path == fs.files[u.filename]
        cause == IF loadFails THEN "load_error"
                 ELSE IF path = NoFile THEN "no_file"
                 ELSE IF written[path] = "empty" THEN "no_audio"
                 ELSE IF bo # "ok" THEN "backend_error"
                 ELSE "none"
        closed == [fd EXCEPT ![r] = NoFile]
        names == [fs.files EXCEPT ![u.filename] = NoFile]
    IN  /\ initialized' = e1.initialized
        /\ model' = e1.model
        /\ loads' = e1.loads
        /\ initReturned' = (initReturned \/ (loading /\ ~loadFails))
        /\ heard' = [heard EXCEPT ![r] = IF loadFails THEN "none"
                                         ELSE IF path = NoFile THEN "missing"
                                         ELSE written[path]]
        /\ tcause' = [tcause EXCEPT ![r] = cause]
        /\ tstatus' = [tstatus EXCEPT ![r] = IF cause = "none" THEN 200 ELSE 500]
        /\ tpc' = [tpc EXCEPT ![r] = "done"]
        /\ fd' = closed
        /\ files' = names
        /\ data' = Kept(names, closed, written)
        /\ UNCHANGED <<phase, registry, failure, reply>>

\* the request arrives and the handler runs up to its await, or to its end when
\* the read does not suspend
SttRequest(r, u, lo, bo) ==
    /\ Serving
    /\ tpc[r] = "idle"
    /\ upload' = [upload EXCEPT ![r] = u]
    /\ IF ~TaskAllowed(u.task) THEN
           /\ tpc' = [tpc EXCEPT ![r] = "done"]
           /\ tstatus' = [tstatus EXCEPT ![r] = 400]
           /\ tcause' = [tcause EXCEPT ![r] = "bad_task"]
           /\ UNCHANGED <<heard, fd, files, data, lifeVars>>
       ELSE
           LET fs == OpenWb(Tmp, u.filename, r)
               ino == fs.files[u.filename]
           IN  IF u.suspends THEN
                   /\ tpc' = [tpc EXCEPT ![r] = "read"]
                   /\ fd' = [fd EXCEPT ![r] = ino]
                   /\ files' = fs.files
                   /\ data' = fs.data
                   /\ UNCHANGED <<heard, tstatus, tcause, lifeVars>>
               ELSE
                   SttComplete(r, u, fs, ino, lo, bo)
    /\ UNCHANGED <<textVars, callVars, reqVars, voiceVars, service, engine>>

\* audio.read() returns and the handler runs to its end
SttReadReturns(r, lo, bo) ==
    /\ tpc[r] = "read"
    /\ SttComplete(r, upload[r], Tmp, fd[r], lo, bo)
    /\ UNCHANGED <<upload, textVars, callVars, reqVars, voiceVars, service, engine>>

SttInit ==
    /\ service = "stt"
    /\ engine = "whisper"
    /\ ReqIdle
    /\ SttIdle
    /\ VoiceIdle
    /\ LifeStart
    /\ TextIdle
    /\ CallIdle

SttNext ==
    \/ \E o \in LoadOutcomes(service, engine) : Startup(o)
    \/ \E r \in SttIds : \E u \in Uploads : \E lo \in LoadOutcomes(service, engine) :
           \E bo \in BackendOutcomes : SttRequest(r, u, lo, bo)
    \/ \E r \in SttIds : \E lo \in LoadOutcomes(service, engine) :
           \E bo \in BackendOutcomes : SttReadReturns(r, lo, bo)

SttSpec == SttInit /\ [][SttNext]_vars

\* ----------------------------------------------------------------- properties
Holders == {t \in Tasks : InCritical(t) \/ t \in sem.woken}

Last(q) == q[Len(q)]

\* C1: at most one engine inference call is executing at any instant, whatever
\* the number of concurrent HTTP and WebSocket clients: the tasks inside
\* engine.synthesize together with the backend generations still running are
\* never more than one.
C1_NoOverlap ==
    Cardinality(inflight \cup {t \in Tasks : pc[t] \in InEngine}) <= 1

\* an inference runs while another client's request is pending
C1_Witness ==
    \E t \in Tasks : \E u \in Tasks \ {t} :
        /\ pc[t] = "infer"
        /\ pc[u] \in {"wait", "s_chunk"}

\* C2: in adv-tts-service the gate's permit is always accounted for: it is free,
\* or it belongs to exactly one request that is inside the gated body or has
\* been handed it; so a request that left the body (by success, by an engine
\* exception or by a failed send) does not keep it, and while requests are
\* queued the gate is never left free.
C2_GateFreeAfterExit ==
    service = "adv" =>
        /\ sem.value + Cardinality(Holders) = 1
        /\ sem.value = 1 => sem.waiters = <<>>

\* a request has failed inside the gate and the request queued behind it has
\* been handed the gate (the third task never started)
C2_Witness ==
    \E t \in Tasks : \E u \in Tasks \ {t} :
        /\ endCause[t] \in {"engine_error", "send_failed", "timeout"}
        /\ u \in sem.woken
        /\ \A v \in Tasks \ {t, u} : pc[v] = "idle"

\* C3: once the Qwen3 synthesize timeout has expired, the call has been reported
\* as failed and the gate released, even though the backend generation is
\* still running.
C3_TimeoutReleasesGate ==
    \A t \in timedOut : t \in inflight => ~InCritical(t)

\* C4: in adv-tts-service a stream holds the gate from before its first unit
\* until its 'complete' message has been sent, and meanwhile no synthesis call
\* of any other request runs and no other request is inside the gate.
C4_StreamHoldsGate ==
    service = "adv" =>
        \A w \in WsIds : pc[w] \in WsCritical =>
            /\ sem.value = 0
            /\ Holders = {w}
            /\ \A u \in Tasks \ {w} : pc[u] \notin InEngine /\ u \notin inflight

\* a stream is between two units while another request waits on the gate
C4_Witness ==
    /\ service = "adv"
    /\ \E w \in WsIds : \E u \in Tasks \ {w} :
        /\ pc[w] = "s_chunk"
        /\ produced[w] < total[w]
        /\ pc[u] = "wait"

C6_SequenceNumbering ==
    \A w \in WsIds :
        /\ \A i \in 1..Len(log[w]) :
            /\ log[w][i].type = "audio_chunk" => log[w][i] = ChunkMsg(i - 1)
            /\ log[w][i].type = "complete" =>
                   /\ i = Len(log[w])
                   /\ log[w][i] = CompleteMsg(i - 1)
                   /\ \A j \in 1..(i - 1) : log[w][j].type = "audio_chunk"
        /\ pc[w] = "s_complete" =>
               /\ Last(log[w]).type = "complete"
               /\ Len(log[w]) = total[w] + 1
               /\ produced[w] = total[w]

\* the second request on a connection has streamed MaxUnits units and its
\* 'complete' message
C6_Witness ==
    \E w \in WsIds :
        /\ nreq[w] = 2
        /\ pc[w] = "s_complete"
        /\ total[w] = MaxUnits
        /\ log[w][1] = ChunkMsg(0)

\* C7: after an engine exception during a stream has been answered with an
\* 'error' message, the session is still open (awaiting the next message).
C7_SessionSurvivesError ==
    \A w \in WsIds :
        (endCause[w] = "engine_error" /\ log[w] # <<>> /\ Last(log[w]) = ErrorMsg)
            => pc[w] # "closed"

\* C8: receiving a message whose type is not 'synthesize' on a live connection
\* sends exactly one 'error' message and nothing else: the gate and the engine
\* are untouched and the session awaits the next message.
C8_UnknownTypeStep ==
    \A w \in WsIds :
        (/\ pc[w] = "recv"
         /\ inbox[w] # NoMsg
         /\ inbox[w].type # "synthesize"
         /\ connected[w]
         /\ nreq'[w] = nreq[w] + 1)
        => /\ log'[w] = Append(log[w], ErrorMsg)
           /\ pc'[w] = "recv"
           /\ connected'[w]
           /\ sem' = sem
           /\ order' = order
           /\ inflight' = inflight
           /\ endCause'[w] = "none"

C8_UnknownType == [][C8_UnknownTypeStep]_vars

\* an unknown message has been answered and the session awaits the next one
C8_Witness ==
    \E w \in WsIds :
        /\ log[w] = <<ErrorMsg>>
        /\ endCause[w] = "none"
        /\ pc[w] = "recv"
        /\ connected[w]
        /\ nreq[w] >= 1

\* C9: in adv-tts-service, after a send of a stream has failed because the
\* client is gone, the handler has ended (no unit of the request is synthesized
\* any more) and no longer holds the gate: the gate is free or belongs to
\* another request.
C9_DisconnectReleases ==
    service = "adv" =>
        \A w \in WsIds : endCause[w] = "send_failed" =>
            /\ pc[w] = "closed"
            /\ w \notin inflight
            /\ w \notin Holders
            /\ sem.value = 1 \/ Holders # {}

\* the stream's send has failed and a request that waited on the gate has been
\* handed it
C9_Witness ==
    /\ service = "adv"
    /\ \E w \in WsIds : \E u \in Tasks \ {w} :
        /\ endCause[w] = "send_failed"
        /\ u \in sem.woken
        /\ \A v \in Tasks \ {w, u} : pc[v] = "idle"

\* C10: requests are admitted through the gate in the order in which they
\* requested it: whoever holds the gate (or has been handed it) is the earliest
\* requester that has not left it yet, so no request is admitted while one that
\* asked before it still waits.
C10_Fifo ==
    \A t \in Tasks :
        (Gated(t) /\ t \in Holders) => (order # <<>> /\ order[1] = t)

\* two requests wait on the gate and the first of them has been handed it
C10_Witness ==
    /\ Len(sem.waiters) = 2
    /\ sem.waiters[1] \in sem.woken
    /\ sem.waiters[2] \notin sem.woken

\* C11: no starvation: when every operation that holds the gate ends, a request
\* that has started to wait on the gate is admitted and answered: an HTTP
\* request gets its response, a stream request runs to its 'complete' or its
\* 'error'.
Answered(t) ==
    IF IsHttp(t) THEN status[t] \in {200, 500} ELSE pc[t] \in {"recv", "closed"}

StartupFailed == phase = "serving" /\ failure # "none" /\ ~initialized

C12_DegradedHealth ==
    /\ failure # "none" => phase # "boot"
    /\ StartupFailed =>
           /\ HealthReply(registry, initialized).status = 200
           /\ ~HealthReply(registry, initialized).loaded
           /\ reply.op = "health" => (reply.status = 200 /\ ~reply.loaded)
           /\ reply.op = "ping" => reply.status = 200

\* PocketTTS loaded its model but not its default voice, and /health has answered
C12_Witness ==
    /\ StartupFailed
    /\ failure = "voice_error"
    /\ model
    /\ reply.op = "health"
    /\ reply.status = 200

\* C13: while the startup initialization has failed no synthesis request
\* succeeds: no HTTP request has status 200 and no stream request has been
\* answered with 'complete'.
C13_FailedNoSuccess ==
    StartupFailed =>
        /\ \A h \in HttpIds : status[h] # 200
        /\ \A w \in WsIds : \A i \in 1..Len(log[w]) : log[w][i].type # "complete"

\* C14: the initialization flag is true only on an engine whose initialize() /
\* load_model() has returned without error and that holds a model; so the
\* registry is Ready only then.
C14_FlagMeansLoaded ==
    /\ initialized => (initReturned /\ model /\ loads >= 1)
    /\ RegistryState = "Ready" => (initReturned /\ model)

\* a load that failed was retried and succeeded
C14_Witness ==
    /\ initialized
    /\ failure # "none"
    /\ loads >= 2
    /\ RegistryState = "Ready"

C16_InitializeIdempotent ==
    /\ initialized =>
           \A o \in LoadOutcomes(service, engine) :
               /\ EngineInitialize(EngineNow, o) = EngineNow
               /\ ~InitializeRaises(EngineNow, o)
    /\ (phase = "serving" /\ failure = "none") => loads = 1

\* initialize() has been called again on the engine that startup initialized
C16_Witness ==
    /\ phase = "serving"
    /\ failure = "none"
    /\ initialized
    /\ loads = 1
    /\ reply.op = "initialize"
    /\ reply.error = "none"

\* C17: a synthesize call, or the first step of a synthesize_streaming sequence,
\* on an engine whose flag is false ends in a not-initialized error and does
\* not reach the backend.
C17_UninitializedStep ==
    (~initialized /\ reply' # reply /\ reply'.op \in {"synthesize", "stream"})
        => (reply'.error = "not_initialized" /\ ~reply'.backend)

C17_NotInitializedError == [][C17_UninitializedStep]_vars

\* C18: a POST whose text is empty or longer than 10000 characters, or whose
\* speed is outside [0.5, 2.0], is answered with a validation error (422) and
\* touches neither the gate nor the engine.
Invalid(b) ==
    \/ TextLen(b.text) = 0
    \/ TextLen(b.text) > MaxTextLength
    \/ b.speed < MinSpeed
    \/ b.speed > MaxSpeed

C18_InvalidPostStep ==
    \A h \in HttpIds :
        (pc[h] = "idle" /\ pc'[h] # "idle" /\ Invalid(body'[h]))
            => /\ status'[h] = 422
               /\ pc'[h] = "done"
               /\ sem' = sem
               /\ order' = order
               /\ inflight' = inflight
               /\ endCause'[h] = "none"

C18_HttpValidation == [][C18_InvalidPostStep]_vars

\* a POST with a speed above 2.0 has been rejected while a stream held the gate
C18_Witness ==
    \E h \in HttpIds :
        /\ status[h] = 422
        /\ body[h].speed > MaxSpeed
        /\ service = "adv"
        /\ sem.value = 0
        /\ \E w \in WsIds : pc[w] = "s_chunk"

\* C19: a synthesize message that breaks a constraint of StreamMessage (text
\* missing or empty, text longer than 10000 characters, speed out of range) is
\* answered with one 'error' message and touches neither the gate nor the engine.
C19_InvalidMessageStep ==
    \A w \in WsIds :
        (/\ pc[w] = "recv"
         /\ inbox[w].type = "synthesize"
         /\ inbox[w].viol # "none"
         /\ connected[w]
         /\ nreq'[w] = nreq[w] + 1)
        => /\ log'[w] = Append(log[w], ErrorMsg)
           /\ pc'[w] \notin WsCritical \cup {"wait"}
           /\ sem' = sem
           /\ order' = order
           /\ inflight' = inflight

C19_WsValidation == [][C19_InvalidMessageStep]_vars

\* C20: a text is accepted exactly when its normal form (whitespace runs
\* collapsed to one space, ends trimmed) has 1 to 10000 characters, and the
\* accepted value is that normal form; a text of whitespace only is rejected.
NormalForm(t) == Strip(Join(Split(t)))

C20_NormalizeThenLimit ==
    verdict.done =>
        /\ verdict.ok <=> (1 <= TextLen(NormalForm(text)) /\ TextLen(NormalForm(text)) <= 10000)
        /\ verdict.ok => verdict.value = NormalForm(text)
        /\ (text # <<>> /\ \A i \in 1..Len(text) : text[i].ws) => ~verdict.ok


\* the first characters of the sentence units of a text: a "w" that no "p"-free
\* stretch joins to an earlier "w"
UnitStarts(t) ==
    {i \in 1..Len(t) :
        /\ t[i] = "w"
        /\ \A j \in 1..(i - 1) : t[j] = "w" => \E k \in (j + 1)..(i - 1) : t[k] = "p"}

\* the unit that starts at i, up to its last "w"
UnitAt(t, i) ==
    LET ends == {j \in i..Len(t) : t[j] = "w" /\ \A k \in i..j : t[k] # "p"}
    IN  SubSeq(t, i, CHOOSE j \in ends : \A j2 \in ends : j2 <= j)

Kth(S, k) == CHOOSE x \in S : Cardinality({y \in S : y < x}) = k - 1

StreamingKinds == {"piper", "qwen3", "pocket"}

\* C21: on an initialized Piper, Qwen3 or Pocket engine synthesize_streaming
\* yields exactly one result per non-empty sentence unit of the text, in the
\* order of the units (3 results for "First. Second. Third.").
C21_OneResultPerUnit ==
    (/\ call.fn = "synthesize_streaming"
     /\ result.done
     /\ initialized
     /\ engine \in StreamingKinds)
    => /\ result.error = "none"
       /\ Len(result.yields) = Cardinality(UnitStarts(call.text))
       /\ \A k \in 1..Len(result.yields) :
              result.yields[k] = UnitAt(call.text, Kth(UnitStarts(call.text), k))

\* the speakers the engine supports, given what the backend reported
Supported(kind, reported) == IF kind = "pocket" THEN VoiceCatalog ELSE reported

\* C23: on a Qwen3 or Pocket engine a synthesis that names a voice outside the
\* engine's supported set (the schema's default id "default" included) does not
\* fail and is served with the first supported speaker.
C23_UnknownVoiceFallback ==
    (/\ call.fn = "synthesize"
     /\ result.done
     /\ initialized
     /\ engine \in {"qwen3", "pocket"}
     /\ Supported(engine, result.reported) # <<>>
     /\ call.voice # NoVoice
     /\ call.voice \notin Members(Supported(engine, result.reported)))
    => /\ result.error = "none"
       /\ result.speaker = Supported(engine, result.reported)[1]

\* C24: get_supported_speakers() of an engine that is not initialized returns
\* an empty collection, for every engine variant.
C24_NoSpeakersBeforeInit ==
    (/\ call.fn = "get_supported_speakers"
     /\ result.done
     /\ ~initialized)
    => result.speakers = <<>>

\* C25: for a fixed text (one backend audio) a working Piper, Pocket or Qwen3
\* engine returns strictly more samples at speed 0.5 than at speed 2.0; the
\* sample rate does not depend on the speed.
C25_SpeedMonotone ==
    (/\ call.fn = "synthesize"
     /\ result.done
     /\ result.error = "none"
     /\ engine \in {"piper", "pocket", "qwen3"}
     /\ call.audio # <<>>
     /\ call.speed = MinSpeed)
    => Len(result.audio) >
           Len(SynthesizeAudio(service, engine, call.audio, MaxSpeed, call.enable))

\* C28: synthesize of an engine that takes enable_enhancement (TTSEngine,
\* PiperEngine, PocketTTSEngine) returns the post-processed raw audio when the
\* setting is true and the raw audio when it is false.
C28_EnhancementSetting ==
    (/\ call.fn = "synthesize"
     /\ result.done
     /\ result.error = "none"
     /\ engine \in {"piper", "pocket"})
    => result.audio = (IF call.enable THEN EnhanceAudio(service, result.raw, "none")
                       ELSE result.raw)

\* C29: when a stage of the enhancement pipeline raises, _enhance_audio
\* returns the samples exactly as they were passed in, whichever stage it was.
C29_EnhanceFailureKeepsInput ==
    (/\ call.fn = "_enhance_audio"
     /\ result.done
     /\ (call.fault # "none" \/ call.audio = <<>>))
    => result.audio = call.audio

C22_LazyStreaming ==
    \A w \in WsIds :
        /\ (pc[w] \in InEngine \/ w \in inflight) => produced[w] = seq[w]
        /\ pc[w] = "s_chunk" => produced[w] = seq[w] + 1
        /\ pc[w] = "next" => produced[w] = seq[w]

\* the second unit of a stream is being synthesized, the first chunk sent
C22_Witness ==
    \E w \in WsIds :
        /\ pc[w] = "infer"
        /\ produced[w] = 1
        /\ seq[w] = 1
        /\ total[w] = MaxUnits
        /\ log[w] = <<ChunkMsg(0)>>


\* the gate is taken, by a handler inside its body or by a woken waiter
GateHeld == \E t \in Tasks : InCritical(t) \/ t \in sem.woken

\* C26: GET /health and GET /ping never acquire or wait on the synthesis gate.
\* Whenever the event loop is free to run a handler, a health and a ping
\* request can be answered, whoever holds the gate and whoever is queued on
\* it; and answering leaves the gate and every request as they were.
C26_ProbesSkipGate ==
    /\ [](Serving /\ LoopFree => ENABLED Health /\ ENABLED Ping)
    /\ [][reply' # reply => UNCHANGED reqVars]_vars

\* a health request was answered with the gate held by a stream that awaits
\* its WebSocket send and another request queued on the gate
C26_Witness ==
    /\ reply.op = "health"
    /\ reply.status = 200
    /\ \E w \in WsIds : pc[w] = "s_chunk" /\ InCritical(w)
    /\ Len(sem.waiters) > 0
    /\ GateHeld


\* the load has run past init_timeout_s
LoadOverdue ==
    /\ call.fn = "initialize"
    /\ result.pc \in {"result", "exit_raise"}
    /\ result.clock >= call.timeout
    /\ WorkerRunning

\* C27: once the Qwen3 model load has exceeded init_timeout_s, initialize
\* fails and startup proceeds in degraded mode, also when the load call never
\* completes.
C27_InitTimeoutFails ==
    LoadOverdue ~> (phase = "serving" /\ failure = "timeout" /\ ~initialized)


\* round(num / den) for num >= 0, den > 0, halves to the even neighbour
RoundDiv(num, den) ==
    LET q == num \div den
        r == num % den
    IN  IF 2 * r < den THEN q
        ELSE IF 2 * r > den THEN q + 1
        ELSE IF q % 2 = 0 THEN q ELSE q + 1

\* C32: Pocket's speed adjustment resamples a waveform of n samples to
\* exactly round(n / s) samples, for every n >= 0 and every speed s of
\* [0.5, 2.0] other than 1.0.
C32_ResampleLength ==
    (/\ call.fn = "_adjust_speed"
     /\ result.done
     /\ call.speed # 10)
    => Len(result.audio) = RoundDiv(Len(call.audio) * 10, call.speed)

\* C33: WAV encoding maps every float sample x of [-1, 1] to the 16-bit PCM
\* value round(x * 32767).
C33_PcmRounding ==
    (/\ call.fn = "audio_to_bytes"
     /\ result.done
     /\ call.format = "wav")
    => /\ result.bytes.error = "none"
       /\ \A i \in 1..Len(call.audio) :
              result.bytes.frames[i] =
                  Sgn(call.audio[i]) * RoundDiv(Abs(call.audio[i]) * 32767, 1000)

\* C40: when the engine call of POST /synthesize has succeeded the response
\* is a success, never a 500; with zero samples or a zero sample rate it
\* reports duration 0.
C40_EmptyAudioResponse ==
    (/\ call.fn = "synthesize_text"
     /\ result.done)
    => /\ result.status = 200
       /\ (call.audio = <<>> \/ call.rate = 0) => result.duration = 0

\* ----------------------------------------------------------------- C37
\* C37: the gate cannot deadlock.  A task that holds the gate is never queued on
\* it, and whenever some request waits for the gate, a task that holds it (or
\* has been handed it) has a step of its own it can take.
Waiting == {t \in Tasks : pc[t] = "wait" /\ t \notin sem.woken}

Queued(t) == \E i \in 1..Len(sem.waiters) : sem.waiters[i] = t

C37_NoGateDeadlock ==
    /\ \A t \in Tasks : InCritical(t) => ~Queued(t)
    /\ Waiting # {} => \E h \in Holders : ENABLED Progress(h)

\* a request waits while the holder is in the middle of sending a chunk
C37_Witness ==
    \E w \in WsIds : \E t \in Tasks :
        /\ pc[w] = "s_chunk" /\ Gated(w)
        /\ t \in Waiting

\* ----------------------------------------------------------------- C38
\* C38: of the messages a stream request is answered with, at most one is
\* terminal ('complete' or 'error'), and nothing follows it: in particular no
\* 'audio_chunk' comes after it and 'complete' and 'error' never both occur.
Terminal(m) == m.type \in {"complete", "error"}

C38_OneTerminalMessage ==
    \A w \in WsIds : \A i \in 1..Len(log[w]) :
        Terminal(log[w][i]) => i = Len(log[w])

\* a request answered with a chunk and then an error, and one with a chunk and then complete
C38_Witness ==
    /\ \E w \in WsIds : Len(log[w]) = 2 /\ log[w][1].type = "audio_chunk" /\ log[w][2].type = "error"
    /\ \E w \in WsIds : Len(log[w]) = 2 /\ log[w][1].type = "audio_chunk" /\ log[w][2].type = "complete"

\* ----------------------------------------------------------------- C39
\* C39: whatever the engine kind, once the registry is Ready a POST /synthesize
\* that reaches the engine call is handed to the backend (and fails only if the
\* backend faults afterwards): the call itself does not fail.
C39_ReadyEngineServes ==
    [][\A h \in HttpIds :
          (pc[h] = "call" /\ RegistryState = "Ready" /\ pc'[h] # "call")
              => pc'[h] = "infer"]_vars

\* the kokoro engine is Ready and a request was refused by the call itself
C39_Refused ==
    \E h \in HttpIds :
        /\ engine = "kokoro" /\ RegistryState = "Ready"
        /\ pc[h] = "done" /\ status[h] = 500 /\ endCause[h] = "engine_error"

\* ----------------------------------------------------------------- C31
\* C31: a transcribe request whose task is neither "transcribe" nor "translate"
\* is answered 400 in the step it arrives in, and that step creates, empties or
\* removes no file of /tmp and leaves the engine as it was (no load, no
\* transcription).
C31_BadTaskRejectedFirst ==
    [][\A r \in SttIds :
          (tpc[r] = "idle" /\ tpc'[r] # "idle"
              /\ upload'[r].task \notin {"transcribe", "translate"})
              => /\ tstatus'[r] = 400
                 /\ tpc'[r] = "done"
                 /\ UNCHANGED <<files, data, fd, heard>>
                 /\ UNCHANGED <<initialized, model, loads>>]_vars

\* a request with another task has been answered 400 while another request's
\* temp file exists
C31_Witness ==
    \E r \in SttIds :
        /\ tpc[r] = "done" /\ tstatus[r] = 400 /\ upload[r].task = "summarize"
        /\ files[upload[r].filename] # NoFile

\* ----------------------------------------------------------------- C35
\* C35: concurrent transcribe requests do not interfere through the temp file,
\* same filename or not: a request that ends (with an allowed task) leaves no
\* file under its name, the model was given the request's own upload if it
\* found a file to read, and the request fails only if the model load or the
\* backend's transcription failed.
C35_NoTempFileInterference ==
    [][\A r \in SttIds :
          (tpc[r] # "done" /\ tpc'[r] = "done" /\ tstatus'[r] # 400)
              => /\ files'[upload'[r].filename] = NoFile
                 /\ heard'[r] \in {"none", "missing", r}
                 /\ tstatus'[r] = 500 => tcause'[r] \in {"load_error", "backend_error"}]_vars

\* a request failed because its temp file was gone
C35_FileGone ==
    \E r \in SttIds : tpc[r] = "done" /\ tstatus[r] = 500 /\ tcause[r] = "no_file"

\* ----------------------------------------------------------------- C36
\* C36: the model's transcribe is never called while model_loaded is false; a
\* request that finds the model not loaded calls load_model again, and when
\* that load fails the request fails without a transcription and model_loaded
\* stays false (so the next request retries in its turn).
C36_LazyLoadRetry ==
    /\ [](\A r \in SttIds : heard[r] # "none" => initialized)
    /\ [][\A r \in SttIds :
             (tpc[r] # "done" /\ tpc'[r] = "done" /\ tstatus'[r] # 400 /\ ~initialized)
                 => /\ loads' = loads + 1
                    /\ ~initialized' => (tstatus'[r] = 500 /\ heard'[r] = "none")]_vars

\* the startup load failed, one request's retry failed and a later one's succeeded
C36_Witness ==
    /\ failure # "none"
    /\ \E r1, r2 \in SttIds :
          /\ tcause[r1] = "load_error" /\ tstatus[r1] = 500
          /\ tstatus[r2] = 200 /\ heard[r2] = r2
    /\ loads = 3

Calling(t) == voice[t] # Unset /\ voice'[t] = Unset

====
